---------------------------- MODULE Spec2Model ----------------------------
(***************************************************************************)
(* Model of src/app.py: the MCP recommendation service.                    *)
(*                                                                         *)
(* Text is a sequence of one-character strings, so that lower(), the       *)
(* substring test `in`, " ".join and str.split are computed as Python      *)
(* computes them.  A tool descriptor is a function from field names to     *)
(* values (a Python dict); a missing key is a field outside its DOMAIN.    *)
(* mcprank_score ranges over integers (JSON numbers), which keeps the      *)
(* score arithmetic exact.                                                 *)
(***************************************************************************)
EXTENDS Integers, Sequences, FiniteSets, TLC

VARIABLES ranked_mcps, loaded, th, served

vars == <<ranked_mcps, loaded, th, served>>

----------------------------------------------------------------------------
(* Bounds of the model *)

MaxCatalog == 3
MaxK == 2
MaxStatic == 2
MaxProxy == 2
MaxRequests == 3

(* Program constants *)

TopN == 25
DescWeight == 3
TagWeight == 2
NameWeight == 5
RankWeight == 5
QuickDescWeight == 2
QuickTagWeight == 1
QuickRankWeight == 2

Threads == {1, 2}

----------------------------------------------------------------------------
(* Python str and list primitives *)

LowerChar(c) ==
  CASE c = "A" -> "a"
    [] c = "B" -> "b"
    [] c = "C" -> "c"
    [] OTHER -> c

Lower(s) == [i \in 1..Len(s) |-> LowerChar(s[i])]

\* x in s, for two str
IsSubstring(x, s) ==
  \E i \in 0..(Len(s) - Len(x)) : SubSeq(s, i + 1, i + Len(x)) = x

RECURSIVE Join(_)
\* " ".join(tags)
Join(tags) ==
  IF Len(tags) = 0 THEN <<>>
  ELSE IF Len(tags) = 1 THEN tags[1]
  ELSE tags[1] \o <<" ">> \o Join(Tail(tags))

RECURSIVE SplitFrom(_, _, _)
\* str.split(): the maximal runs of non-whitespace characters, in order
SplitFrom(s, i, cur) ==
  IF i > Len(s) THEN (IF cur = <<>> THEN <<>> ELSE <<cur>>)
  ELSE IF s[i] = " "
       THEN (IF cur = <<>> THEN <<>> ELSE <<cur>>) \o SplitFrom(s, i + 1, <<>>)
       ELSE SplitFrom(s, i + 1, Append(cur, s[i]))

Split(s) == SplitFrom(s, 1, <<>>)

\* dict.get(field, default)
Get(d, field, default) == IF field \in DOMAIN d THEN d[field] ELSE default

\* d[field] = v on a dict
SetField(d, field, v) ==
  [f \in (DOMAIN d) \cup {field} |-> IF f = field THEN v ELSE d[f]]

Reverse(xs) == [i \in 1..Len(xs) |-> xs[Len(xs) + 1 - i]]

\* xs[:k], negative k counting from the end as Python slices do
SliceTo(xs, k) ==
  IF k >= 0
  THEN SubSeq(xs, 1, IF k < Len(xs) THEN k ELSE Len(xs))
  ELSE SubSeq(xs, 1, IF Len(xs) + k > 0 THEN Len(xs) + k ELSE 0)

\* one step of a stable ascending insertion sort of <<key, position>> pairs:
\* p goes after every pair whose key is not greater
InsertAsc(sorted, p) ==
  LET c == Cardinality({ i \in 1..Len(sorted) : sorted[i][1] <= p[1] })
  IN SubSeq(sorted, 1, c) \o <<p>> \o SubSeq(sorted, c + 1, Len(sorted))

RECURSIVE InsertRange(_, _, _, _)
\* the pairs lo..hi inserted in order into sorted.  The range is split in
\* halves and the first half is evaluated before the second is entered,
\* which keeps the evaluation shallow.
InsertRange(sorted, pairs, lo, hi) ==
  IF lo > hi THEN sorted
  ELSE IF lo = hi THEN InsertAsc(sorted, pairs[lo])
  ELSE LET mid == (lo + hi) \div 2
           left == InsertRange(sorted, pairs, lo, mid)
       IN IF Len(left) = 0 THEN left ELSE InsertRange(left, pairs, mid + 1, hi)

\* a stable ascending sort of the first n pairs
StableAsc(pairs, n) == InsertRange(<<>>, pairs, 1, n)

\* a descending sort that sorts ascending and reverses the result, which
\* turns the order of equal keys around
SortedReverseOrderUnstable(keys) ==
  LET pairs == [i \in 1..Len(keys) |-> <<keys[i], i>>]
      out == Reverse(StableAsc(pairs, Len(pairs)))
  IN [i \in 1..Len(out) |-> out[i][2]]

\* list.sort(reverse=True) on the keys: CPython reverses the list, sorts it
\* stably ascending, and reverses the result.  The result is the sequence of
\* positions of keys in sorted order.
SortedReverseOrder(keys) ==
  LET pairs == [i \in 1..Len(keys) |-> <<keys[i], i>>]
      asc == StableAsc(Reverse(pairs), Len(pairs))
      out == Reverse(asc)
  IN [i \in 1..Len(out) |-> out[i][2]]

----------------------------------------------------------------------------
(* References.  Python lists and dicts hold references to dicts, not copies: *)
(* a reference names a dict by the heap it lives in and its position there.  *)

StaticRef(i) == [heap |-> "static", idx |-> i]
ProxyRef(j) == [heap |-> "proxy", idx |-> j]

----------------------------------------------------------------------------
(* /recommend *)

\* relevance with the rank term subtracted instead of added
relevanceRankSubtracted(mcp, query) ==
  LET desc == Lower(Get(mcp, "description", <<>>))
      tags == Lower(Join(Get(mcp, "tags", <<>>)))
      toks == Split(tags)
  IN (IF IsSubstring(Lower(query), desc) THEN DescWeight ELSE 0)
     + (IF \E j \in 1..Len(toks) : IsSubstring(toks[j], Lower(query))
        THEN TagWeight ELSE 0)
     + (IF IsSubstring(Get(mcp, "name", <<>>), query) THEN NameWeight ELSE 0)
     - Get(mcp, "mcprank_score", 0) * RankWeight

\* recommend_mcp.relevance
relevance(mcp, query) ==
  LET desc == Lower(Get(mcp, "description", <<>>))
      tags == Lower(Join(Get(mcp, "tags", <<>>)))
      toks == Split(tags)
  IN (IF IsSubstring(Lower(query), desc) THEN DescWeight ELSE 0)
     + (IF \E j \in 1..Len(toks) : IsSubstring(toks[j], Lower(query))
        THEN TagWeight ELSE 0)
     + (IF IsSubstring(Get(mcp, "name", <<>>), query) THEN NameWeight ELSE 0)
     + Get(mcp, "mcprank_score", 0) * RankWeight

\* the positions of the catalog's entries in sorted(..., reverse=True)
RankOrder(catalog, query) ==
  SortedReverseOrder([i \in 1..Len(catalog) |-> relevance(catalog[i], query)])

\* sorted(ranked_mcps, key=relevance, reverse=True)
Ranked(catalog, query) ==
  LET ord == RankOrder(catalog, query)
  IN [i \in 1..Len(ord) |-> catalog[ord[i]]]

\* the body recommend_mcp returns: ranked[:top_k] is a new list that holds
\* the very dicts of ranked_mcps, here as references
RecommendBody(catalog, query, top_k) ==
  LET top == SliceTo(RankOrder(catalog, query), top_k)
  IN [query |-> query,
      recommendations |-> [p \in 1..Len(top) |-> StaticRef(top[p])]]

\* what a returned /recommend body reads as, given the static dicts as they
\* are now
BodyRead(static, body) ==
  [query |-> body.query,
   recommendations |-> [p \in 1..Len(body.recommendations) |->
                          static[body.recommendations[p].idx]]]

----------------------------------------------------------------------------
(* Handler threads *)

NoRes == [kind |-> "none"]

IdleThread ==
  [pc |-> "idle", op |-> "none", arg |-> <<>>, top_k |-> 0, i |-> 0,
   all_tools |-> <<>>, proxy_res |-> NoRes, proxy_json |-> <<>>,
   tools |-> <<>>, filtered_tools |-> <<>>, prompt |-> NoRes,
   llm_res |-> NoRes, resp |-> NoRes, sent |-> <<>>, walk |-> <<>>]

Returned(body) == [kind |-> "return", body |-> body]
Raised(exc) == [kind |-> "raise", exc |-> exc]

\* GET /recommend: lines 61-78, one step (no outbound call, no write).  The
\* handler returns a body of references to the static dicts; the framework
\* writes it out afterwards.
Recommend(t, query, top_k) ==
  /\ th[t].pc = "idle"
  /\ LET body == RecommendBody(ranked_mcps, query, top_k)
     IN th' = [th EXCEPT ![t] =
                 [IdleThread EXCEPT !.pc = IF Len(body.recommendations) = 0
                                           THEN "done" ELSE "serialise",
                                    !.op = "recommend",
                                    !.arg = query, !.top_k = top_k, !.i = 1,
                                    !.resp = Returned(body)]]
  /\ UNCHANGED <<ranked_mcps, loaded, served>>

\* The framework serialises the body recommend_mcp returned (line 78) after
\* the handler has returned, walking each recommended dict key by key while
\* other threads run.  SerialiseStep starts the walk of recommendation i and
\* notes the dict as it is then.
SerialiseStep(t) ==
  /\ th[t].pc = "serialise"
  /\ th' = [th EXCEPT ![t] =
              [@ EXCEPT !.pc = "walk",
                        !.walk = ranked_mcps[th[t].resp.body.recommendations[th[t].i].idx]]]
  /\ UNCHANGED <<ranked_mcps, loaded, served>>

\* what the walk of a dict writes: a key added to the dict during the walk
\* ends it with "RuntimeError: dictionary changed size during iteration";
\* otherwise each value is read before or after a concurrent assignment to it
WalkOutcomes(before, now) ==
  IF DOMAIN now # DOMAIN before THEN { Raised("RuntimeError") }
  ELSE { Returned(before), Returned(now) }

\* the walk of recommendation i ends: the dict is written, or the response
\* fails
SerialiseEnd(t) ==
  /\ th[t].pc = "walk"
  /\ LET recs == th[t].resp.body.recommendations
         i == th[t].i
     IN \E w \in WalkOutcomes(th[t].walk, ranked_mcps[recs[i].idx]) :
          th' = [th EXCEPT ![t] =
                   IF w.kind = "raise"
                   THEN [@ EXCEPT !.pc = "done", !.resp = w, !.sent = <<>>,
                                  !.walk = <<>>]
                   ELSE [@ EXCEPT !.sent = Append(@, w.body),
                                  !.walk = <<>>,
                                  !.i = i + 1,
                                  !.pc = IF i + 1 > Len(recs) THEN "done"
                                         ELSE "serialise"]]
  /\ UNCHANGED <<ranked_mcps, loaded, served>>

\* the framework sends the response; the worker thread takes the next request
Finish(t) ==
  /\ th[t].pc = "done"
  /\ served < MaxRequests
  /\ th' = [th EXCEPT ![t] = IdleThread]
  /\ served' = served + 1
  /\ UNCHANGED <<ranked_mcps, loaded>>

----------------------------------------------------------------------------
(* get_all_mcp_sources *)

(* Memory.  The dicts of the static catalog live in ranked_mcps; the dicts  *)
(* parsed from a proxy body live in the calling thread's proxy_json.  A     *)
(* reference names a dict by its heap and position; all_tools, a Python     *)
(* dict in insertion order, is a sequence of [name, ref] pairs.             *)

Heaps(static, proxy) == [static |-> static, proxy |-> proxy]

Deref(heaps, ref) ==
  IF ref.heap = "static" THEN heaps.static[ref.idx] ELSE heaps.proxy[ref.idx].val

\* ref["source"] = v
WriteSource(heaps, ref, v) ==
  IF ref.heap = "static"
  THEN [heaps EXCEPT !.static[ref.idx] = SetField(@, "source", v)]
  ELSE [heaps EXCEPT !.proxy[ref.idx].val = SetField(@, "source", v)]

HasKey(d, name) == \E p \in 1..Len(d) : d[p].name = name

KeyPos(d, name) == CHOOSE p \in 1..Len(d) : d[p].name = name

\* an assignment that moves an overwritten key to the end
DictSetMoveToEnd(d, name, ref) ==
  Append(SelectSeq(d, LAMBDA e : e.name # name), [name |-> name, ref |-> ref])

\* all_tools[name] = ref: an existing key keeps its place, a new key goes last
DictSet(d, name, ref) ==
  IF HasKey(d, name)
  THEN [d EXCEPT ![KeyPos(d, name)].ref = ref]
  ELSE Append(d, [name |-> name, ref |-> ref])

\* list(all_tools.values())
Values(d) == [p \in 1..Len(d) |-> d[p].ref]

\* a merge that tags the dict already held under the entry's name
TagProxyInPlace(heaps, d, j) ==
  LET item == heaps.proxy[j].val
  IN IF "name" \in DOMAIN item /\ HasKey(d, item.name)
     THEN WriteSource(heaps, d[KeyPos(d, item.name)].ref, "proxy")
     ELSE WriteSource(heaps, ProxyRef(j), "proxy")

\* line 51, tool["source"] = "proxy", on the j-th parsed entry
TagProxy(heaps, d, j) == WriteSource(heaps, ProxyRef(j), "proxy")

\* lines 51-52 for the j-th parsed entry.  An entry that is not a dict raises
\* at line 51, a dict without "name" at line 52 (after line 51 tagged it);
\* the loop ends there, with what it did so far.
MergeStep(m, j) ==
  IF m.raised THEN m
  ELSE IF ~m.heaps.proxy[j].obj THEN [m EXCEPT !.raised = TRUE]
  ELSE LET tagged == TagProxy(m.heaps, m.all_tools, j)
       IN IF "name" \notin DOMAIN tagged.proxy[j].val
          THEN [heaps |-> tagged, all_tools |-> m.all_tools, raised |-> TRUE]
          ELSE [heaps |-> tagged,
                all_tools |-> DictSet(m.all_tools, tagged.proxy[j].val.name,
                                      ProxyRef(j)),
                raised |-> FALSE]

RECURSIVE MergeRange(_, _, _)
\* lines 50-52: the loop over the parsed entries lo..hi.  The range is split
\* in halves and the first half is evaluated before the second is entered,
\* which keeps the evaluation shallow.
MergeRange(m, lo, hi) ==
  IF lo > hi THEN m
  ELSE IF lo = hi THEN MergeStep(m, lo)
  ELSE LET mid == (lo + hi) \div 2
           left == MergeRange(m, lo, mid)
       IN IF left.raised THEN left ELSE MergeRange(left, mid + 1, hi)

MergeProxy(heaps, d) ==
  MergeRange([heaps |-> heaps, all_tools |-> d, raised |-> FALSE],
             1, Len(heaps.proxy))

\* lines 47-54: what the proxy's answer does to all_tools and to memory
AfterProxy(static, d, res) ==
  IF res.kind = "exception"
  THEN [heaps |-> Heaps(static, <<>>), all_tools |-> d, raised |-> TRUE]
  ELSE IF res.status_code # 200
  THEN [heaps |-> Heaps(static, <<>>), all_tools |-> d, raised |-> FALSE]
  ELSE IF ~res.json.ok \/ res.json.type # "array"
  THEN [heaps |-> Heaps(static, <<>>), all_tools |-> d, raised |-> TRUE]
  ELSE MergeProxy(Heaps(static, res.json.items), d)

----------------------------------------------------------------------------
(* /recommend-ai *)

\* recommend_ai.quick_relevance
quick_relevance(tool, task) ==
  LET desc == Lower(Get(tool, "description", <<>>))
      tags == Lower(Join(Get(tool, "tags", <<>>)))
      toks == Split(tags)
  IN (IF IsSubstring(Lower(task), desc) THEN QuickDescWeight ELSE 0)
     + (IF \E j \in 1..Len(toks) : IsSubstring(toks[j], Lower(task))
        THEN QuickTagWeight ELSE 0)
     + Get(tool, "mcprank_score", 0) * QuickRankWeight

\* a pre-filter that trims to the caller's top_k
PreFilterByTopK(tools, task, top_k) ==
  LET ord == SortedReverseOrder([i \in 1..Len(tools) |-> quick_relevance(tools[i], task)])
  IN SliceTo([i \in 1..Len(ord) |-> tools[ord[i]]], top_k)

\* line 98: sorted(all_tools, key=quick_relevance, reverse=True)[:25]; the
\* caller's top_k is in scope there and is not used
PreFilter(tools, task, top_k) ==
  LET ord == SortedReverseOrder([i \in 1..Len(tools) |-> quick_relevance(tools[i], task)])
  IN SliceTo([i \in 1..Len(ord) |-> tools[ord[i]]], TopN)

\* GET /recommend-ai arrives: line 83 enters get_all_mcp_sources (line 39)
StartRecommendAi(t, task, top_k) ==
  /\ th[t].pc = "idle"
  /\ th' = [th EXCEPT ![t] =
              [IdleThread EXCEPT !.pc = IF Len(ranked_mcps) = 0 THEN "proxy_get"
                                        ELSE "static_loop",
                                 !.op = "recommend_ai", !.arg = task,
                                 !.top_k = top_k, !.i = 1]]
  /\ UNCHANGED <<ranked_mcps, loaded, served>>

\* lines 42-44, one turn of the loop over the static catalog
StaticStep(t) ==
  /\ th[t].pc = "static_loop"
  /\ LET i == th[t].i
         tagged == SetField(ranked_mcps[i], "source", "static")
     IN /\ ranked_mcps' = [ranked_mcps EXCEPT ![i] = tagged]
        /\ th' = [th EXCEPT ![t] =
                    IF "name" \in DOMAIN tagged
                    THEN [@ EXCEPT !.all_tools = DictSet(@, tagged.name, StaticRef(i)),
                                   !.i = i + 1,
                                   !.pc = IF i + 1 > Len(ranked_mcps)
                                          THEN "proxy_get" ELSE "static_loop"]
                    ELSE [IdleThread EXCEPT !.pc = "done", !.op = "recommend_ai",
                                            !.arg = th[t].arg, !.top_k = th[t].top_k,
                                            !.resp = Raised("KeyError")]]
  /\ UNCHANGED <<loaded, served>>

\* lines 48-56, then lines 83-122: the proxy answers (or the call fails),
\* the merged list is returned, pre-filtered and written into the prompt
ProxyRespond(t, res) ==
  /\ th[t].pc = "proxy_get"
  /\ LET m == AfterProxy(ranked_mcps, th[t].all_tools, res)
         tools == Values(m.all_tools)
         vals == [p \in 1..Len(tools) |-> Deref(m.heaps, tools[p])]
         filtered == PreFilter(vals, th[t].arg, th[t].top_k)
     IN /\ ranked_mcps' = m.heaps.static
        /\ th' = [th EXCEPT ![t] =
                    [@ EXCEPT !.pc = "llm_post",
                              !.proxy_res = res,
                              !.proxy_json = m.heaps.proxy,
                              !.all_tools = m.all_tools,
                              !.tools = tools,
                              !.filtered_tools = filtered,
                              !.prompt = [kind |-> "prompt", task |-> th[t].arg,
                                          tools |-> filtered,
                                          top_k |-> th[t].top_k]]]
  /\ UNCHANGED <<loaded, served>>

\* lines 124-131: the outcome of requests.post decides what the handler does
AiResult(task, res) ==
  IF res.kind = "exception" THEN Raised(res.exc)
  ELSE IF res.status_code # 200 THEN Returned([error |-> <<res.text>>])
  ELSE IF ~res.json.ok THEN Raised("JSONDecodeError")
  ELSE IF Len(res.json.choices) = 0 THEN Raised("IndexError")
  ELSE Returned([task |-> task, llm_response |-> res.json.choices[1]])

LlmRespond(t, res) ==
  /\ th[t].pc = "llm_post"
  /\ th' = [th EXCEPT ![t] =
              [IdleThread EXCEPT !.pc = "done", !.op = "recommend_ai",
                                 !.arg = th[t].arg, !.top_k = th[t].top_k,
                                 !.llm_res = res,
                                 !.resp = AiResult(th[t].arg, res)]]
  /\ UNCHANGED <<ranked_mcps, loaded, served>>

----------------------------------------------------------------------------
(* /list_tools *)

StatusText(code) ==
  CASE code = 200 -> "200"
    [] code = 404 -> "404"
    [] code = 500 -> "500"

\* the handler without its try block
FetchResultUncaught(res) ==
  IF res.kind = "exception" THEN Raised(res.exc)
  ELSE IF res.status_code = 200
  THEN (IF res.json.ok THEN Returned([type |-> res.json.type, items |-> res.json.items])
        ELSE Raised("JSONDecodeError"))
  ELSE Returned([error |-> <<"Proxy returned ", StatusText(res.status_code), ": ", res.text>>])

\* lines 136-143
FetchResult(res) ==
  IF res.kind = "exception" THEN Returned([error |-> <<res.msg>>])
  ELSE IF res.status_code = 200
  THEN (IF res.json.ok THEN Returned([type |-> res.json.type, items |-> res.json.items])
        ELSE Returned([error |-> <<"Expecting value">>]))
  ELSE Returned([error |-> <<"Proxy returned ", StatusText(res.status_code), ": ", res.text>>])

\* GET /list_tools arrives: lines 134-137, up to the call of requests.get,
\* where the thread waits for the proxy
StartFetchMcpTools(t) ==
  /\ th[t].pc = "idle"
  /\ th' = [th EXCEPT ![t] =
              [IdleThread EXCEPT !.pc = "list_get", !.op = "list_tools"]]
  /\ UNCHANGED <<ranked_mcps, loaded, served>>

\* lines 137-143: the proxy answers (or the call fails) and the handler returns
FetchMcpTools(t, res) ==
  /\ th[t].pc = "list_get"
  /\ th' = [th EXCEPT ![t] =
              [IdleThread EXCEPT !.pc = "done", !.op = "list_tools",
                                 !.proxy_res = res, !.resp = FetchResult(res)]]
  /\ UNCHANGED <<ranked_mcps, loaded, served>>

----------------------------------------------------------------------------
(* Inputs *)

RecDescriptors ==
  { [name |-> <<"a">>, description |-> <<"a", " ", "b">>, tags |-> << <<"B">> >>,
     mcprank_score |-> 0],
    [name |-> <<"b">>],
    [name |-> <<"A">>, description |-> <<"B", " ", "A">>,
     tags |-> << <<"a", " ", "c">>, <<"b">> >>, mcprank_score |-> 1],
    [description |-> <<"a", "b">>, mcprank_score |-> 0],
    [name |-> <<"a", "b">>, tags |-> << <<"c">> >>, mcprank_score |-> 2] }

RecQueries ==
  { <<>>, <<"a">>, <<"A">>, <<"a", " ", "b">>, <<"c", "A">> }

SeqsUpTo(S, n) == UNION { [1..m -> S] : m \in 0..n }

\* static descriptors for the aggregator: two of them share the name "a"
AiDescriptors ==
  { [name |-> <<"a">>, description |-> <<"a", " ", "b">>, tags |-> << <<"B">> >>,
     mcprank_score |-> 1],
    [name |-> <<"b">>, mcprank_score |-> 0],
    [name |-> <<"a">>, description |-> <<"c">>] }

AiTasks == { <<"a">>, <<"B">> }

AiTopK == { 1, 5 }

\* what an outbound call can come back with
Failure(exc, msg) ==
  [kind |-> "exception", exc |-> exc, msg |-> msg, status_code |-> 0,
   text |-> "", json |-> [ok |-> FALSE]]

NoJson == [ok |-> FALSE, type |-> "none", items |-> <<>>]
JsonArray(items) == [ok |-> TRUE, type |-> "array", items |-> items]
JsonNumber == [ok |-> TRUE, type |-> "number", items |-> <<>>]

ProxyResponse(code, text, json) ==
  [kind |-> "response", exc |-> "", msg |-> "", status_code |-> code,
   text |-> text, json |-> json]

Obj(d) == [obj |-> TRUE, val |-> d]
NonObj == [obj |-> FALSE, val |-> <<>>]

\* entries a proxy body can hold: one with a static name, two with the same
\* new name (one claims source "static" itself), one without a name, and one
\* that is not an object
ProxyItems ==
  { Obj([name |-> <<"a">>, description |-> <<"b">>, mcprank_score |-> 2]),
    Obj([name |-> <<"c">>, tags |-> << <<"a">> >>, source |-> "static"]),
    Obj([name |-> <<"c">>, description |-> <<"a">>, mcprank_score |-> 1]),
    Obj([description |-> <<"a">>]),
    NonObj }

Digit(k) == <<"0", "1", "2", "3", "4", "5", "6", "7", "8", "9">>[k + 1]

\* a proxy body of n well-formed entries with distinct names
BigProxy(n) ==
  [i \in 1..n |->
     Obj([name |-> <<Digit(i \div 10), Digit(i % 10)>>,
          description |-> IF i % 2 = 0 THEN <<"a">> ELSE <<"b">>,
          mcprank_score |-> i % 3])]

ProxyFailures ==
  { Failure("ConnectTimeout", "timed out"),
    ProxyResponse(500, "boom", NoJson),
    ProxyResponse(404, "[]", JsonArray(<<>>)),
    ProxyResponse(200, "<html>", NoJson),
    ProxyResponse(200, "7", JsonNumber) }

AiProxyOutcomes ==
  ProxyFailures
  \cup { ProxyResponse(200, "small", JsonArray(items)) :
           items \in SeqsUpTo(ProxyItems, MaxProxy) }
  \cup { ProxyResponse(200, "big", JsonArray(BigProxy(n))) :
           n \in (TopN - 1)..(TopN + 1) }

LlmResponse(code, text, ok, choices) ==
  [kind |-> "response", exc |-> "", msg |-> "", status_code |-> code,
   text |-> text, json |-> [ok |-> ok, choices |-> choices]]

LlmOutcomes ==
  { Failure("ConnectionError", "unreachable"),
    LlmResponse(200, "ok", TRUE, <<"r1", "r2">>),
    LlmResponse(200, "none", TRUE, <<>>),
    LlmResponse(200, "<html>", FALSE, <<>>),
    LlmResponse(401, "denied", FALSE, <<>>) }

\* inputs of the concurrent service
SharedCatalogs ==
  { <<>>,
    << [name |-> <<"a">>, description |-> <<"a", " ", "b">>, mcprank_score |-> 0],
       [name |-> <<"b">>, tags |-> << <<"A">> >>, mcprank_score |-> 0] >> }

SharedQueries == { <<"a">> }

SharedTopK == { 1, 2 }

SharedProxyOutcomes ==
  ProxyFailures
  \cup { ProxyResponse(200, "small",
           JsonArray(<< Obj([name |-> <<"a">>, description |-> <<"z">>,
                             mcprank_score |-> 9]),
                        Obj([name |-> <<"c">>]) >>)) }

InitWith(catalogs) ==
  /\ ranked_mcps \in catalogs
  /\ loaded = ranked_mcps
  /\ th = [t \in Threads |-> IdleThread]
  /\ served = 0

----------------------------------------------------------------------------
(* The service: handler threads serving requests concurrently *)

Init == InitWith(SharedCatalogs)

Next ==
  \E t \in Threads :
    \/ \E q \in SharedQueries, k \in SharedTopK : Recommend(t, q, k)
    \/ SerialiseStep(t)
    \/ SerialiseEnd(t)
    \/ StartFetchMcpTools(t)
    \/ \E k \in SharedTopK : StartRecommendAi(t, <<"a">>, k)
    \/ StaticStep(t)
    \/ \E res \in SharedProxyOutcomes : ProxyRespond(t, res)
    \/ \E res \in LlmOutcomes : LlmRespond(t, res)
    \/ \E res \in SharedProxyOutcomes : FetchMcpTools(t, res)
    \/ Finish(t)

Spec == Init /\ [][Next]_vars

----------------------------------------------------------------------------
(* The /recommend handler alone, over a wide range of catalogs and inputs *)

InitRec == InitWith(SeqsUpTo(RecDescriptors, MaxCatalog))

NextRec ==
  \/ \E q \in RecQueries, k \in (-MaxK)..MaxK : Recommend(1, q, k)
  \/ SerialiseStep(1)
  \/ SerialiseEnd(1)

SpecRec == InitRec /\ [][NextRec]_vars

----------------------------------------------------------------------------
(* The /recommend-ai handler alone, over a wide range of proxy answers *)

InitAi == InitWith(SeqsUpTo(AiDescriptors, MaxStatic))

NextAi ==
  \/ \E task \in AiTasks, k \in AiTopK : StartRecommendAi(1, task, k)
  \/ StaticStep(1)
  \/ \E res \in AiProxyOutcomes : ProxyRespond(1, res)
  \/ \E res \in LlmOutcomes : LlmRespond(1, res)

SpecAi == InitAi /\ [][NextAi]_vars

----------------------------------------------------------------------------
(* Claims about /recommend *)

\* a /recommend whose body was written out and sent
RecDone(t) ==
  th[t].pc = "done" /\ th[t].op = "recommend" /\ th[t].resp.kind = "return"

\* the recommendations of the body that was sent
Recs(t) == th[t].sent

Min(a, b) == IF a < b THEN a ELSE b

\* C3: for every catalog, query and integer top_k, the recommendations list
\* has exactly min(top_k, |C|) entries when top_k >= 0 and no entry when
\* top_k <= 0.
C3_ResultCount ==
  \A t \in Threads :
    RecDone(t) =>
      Len(Recs(t)) = (IF th[t].top_k >= 0
                      THEN Min(th[t].top_k, Len(ranked_mcps)) ELSE 0)

\* the score as the claim states it
ClaimScore(d, q) ==
  LET desc == IF "description" \in DOMAIN d THEN Lower(d.description) ELSE <<>>
      toks == IF "tags" \in DOMAIN d THEN Split(Lower(Join(d.tags))) ELSE <<>>
      name == IF "name" \in DOMAIN d THEN d.name ELSE <<>>
      rank == IF "mcprank_score" \in DOMAIN d THEN d.mcprank_score ELSE 0
  IN (IF IsSubstring(Lower(q), desc) THEN 3 ELSE 0)
     + (IF \E x \in {toks[j] : j \in 1..Len(toks)} : IsSubstring(x, Lower(q))
        THEN 2 ELSE 0)
     + (IF IsSubstring(name, q) THEN 5 ELSE 0)
     + 5 * rank

\* where entry i of catalog C stands in a descending order by score whose
\* ties keep the catalog's order
ClaimPos(C, q, i) ==
  1 + Cardinality({ j \in 1..Len(C) :
        \/ ClaimScore(C[j], q) > ClaimScore(C[i], q)
        \/ ClaimScore(C[j], q) = ClaimScore(C[i], q) /\ j < i })

\* C4: for top_k >= 0 the recommendations are the first top_k entries of the
\* static catalog in descending order of the stated score, entries of equal
\* score in catalog order.
C4_Ordering ==
  \A t \in Threads :
    (RecDone(t) /\ th[t].top_k >= 0) =>
      /\ Len(Recs(t)) = Min(th[t].top_k, Len(ranked_mcps))
      /\ \A i \in 1..Len(ranked_mcps) :
           ClaimPos(ranked_mcps, th[t].arg, i) <= Len(Recs(t)) =>
             Recs(t)[ClaimPos(ranked_mcps, th[t].arg, i)] = ranked_mcps[i]

\* a tie between two returned entries, and an entry moved ahead of an
\* earlier catalog entry
C4_Witness ==
  \E t \in Threads :
    /\ RecDone(t) /\ th[t].top_k >= 2 /\ Len(Recs(t)) >= 2
    /\ \E i, j \in 1..Len(ranked_mcps) :
         /\ i < j
         /\ ranked_mcps[i] # ranked_mcps[j]
         /\ ClaimScore(ranked_mcps[i], th[t].arg) = ClaimScore(ranked_mcps[j], th[t].arg)
         /\ ClaimPos(ranked_mcps, th[t].arg, j) <= Len(Recs(t))
    /\ \E i, j \in 1..Len(ranked_mcps) :
         /\ i < j
         /\ ClaimScore(ranked_mcps[i], th[t].arg) < ClaimScore(ranked_mcps[j], th[t].arg)

MaxDelta == 2

\* the catalog with entry k's mcprank_score raised by d
RaiseRank(C, k, d) ==
  [C EXCEPT ![k] = SetField(C[k], "mcprank_score", Get(C[k], "mcprank_score", 0) + d)]

\* the place of catalog entry i in the sorted result
PosIn(ord, i) == CHOOSE p \in 1..Len(ord) : ord[p] = i

\* C9: raising one descriptor's mcprank_score, all else fixed, does not lower
\* its score, and every unchanged entry ranked after it stays after it.
C9_Monotone ==
  \A t \in Threads :
    RecDone(t) =>
      \A k \in 1..Len(ranked_mcps), d \in 1..MaxDelta :
        LET q == th[t].arg
            C2 == RaiseRank(ranked_mcps, k, d)
            ord1 == RankOrder(ranked_mcps, q)
            ord2 == RankOrder(C2, q)
        IN /\ relevance(C2[k], q) >= relevance(ranked_mcps[k], q)
           /\ \A j \in 1..Len(ranked_mcps) :
                (j # k /\ PosIn(ord1, j) > PosIn(ord1, k)) =>
                  PosIn(ord2, j) > PosIn(ord2, k)

\* a raise that moves the descriptor ahead of an entry that was before it
C9_Witness ==
  \E t \in Threads :
    /\ RecDone(t)
    /\ \E k \in 1..Len(ranked_mcps), d \in 1..MaxDelta :
         LET q == th[t].arg
             ord1 == RankOrder(ranked_mcps, q)
             ord2 == RankOrder(RaiseRank(ranked_mcps, k, d), q)
         IN \E j \in 1..Len(ranked_mcps) :
              /\ PosIn(ord1, j) < PosIn(ord1, k)
              /\ PosIn(ord2, j) > PosIn(ord2, k)

----------------------------------------------------------------------------
(* Claims about get_all_mcp_sources and /recommend-ai *)

\* get_all_mcp_sources has returned to recommend_ai, which built its prompt
AiMerged(t) == th[t].op = "recommend_ai" /\ th[t].pc = "llm_post"

\* the list get_all_mcp_sources returned
ToolVals(t) ==
  [p \in 1..Len(th[t].tools) |->
     Deref(Heaps(ranked_mcps, th[t].proxy_json), th[t].tools[p])]

NamesOf(ds) == [i \in 1..Len(ds) |-> ds[i].name]

DistinctNames(ds) ==
  \A i, j \in 1..Len(ds) : i # j => ds[i].name # ds[j].name

StaticTagged == [i \in 1..Len(loaded) |-> SetField(loaded[i], "source", "static")]

WellFormedItems(items) ==
  \A j \in 1..Len(items) : items[j].obj /\ "name" \in DOMAIN items[j].val

ProxyOk(res) ==
  /\ res.kind = "response" /\ res.status_code = 200
  /\ res.json.ok /\ res.json.type = "array"
  /\ WellFormedItems(res.json.items)

\* C1: with distinct static names and a failing proxy outcome (exception,
\* non-200, a body that is not JSON, or a JSON body of unexpected shape) the
\* aggregator returns exactly the static catalog, every entry tagged
\* source="static", with no proxy entry applied.
C1_Degrades ==
  \A t \in Threads :
    (AiMerged(t) /\ DistinctNames(loaded) /\ ~ProxyOk(th[t].proxy_res)) =>
      ToolVals(t) = StaticTagged

\* the names of s, each once, in order of first occurrence
FirstOccurrences(s) ==
  LET first == { i \in 1..Len(s) : \A j \in 1..(i - 1) : s[j] # s[i] }
  IN [k \in 1..Cardinality(first) |->
        s[CHOOSE i \in first : Cardinality({ j \in first : j <= i }) = k]]

\* the last entry of ds that has the name
LastNamed(ds, name) ==
  ds[CHOOSE i \in 1..Len(ds) :
       ds[i].name = name /\ \A j \in (i + 1)..Len(ds) : ds[j].name # name]

\* C2: after a well-formed HTTP 200 proxy list the merged result has one
\* entry per distinct name, in insertion order of the names (static names
\* first, then names only the proxy has); a name the proxy returned is held
\* by the proxy's last entry of that name tagged "proxy", any other name by
\* the last static entry of that name tagged "static".
C2_Dedup ==
  \A t \in Threads :
    (AiMerged(t) /\ ProxyOk(th[t].proxy_res)) =>
      LET items == th[t].proxy_res.json.items
          pvals == [j \in 1..Len(items) |-> items[j].val]
          names == FirstOccurrences(NamesOf(loaded) \o NamesOf(pvals))
          vals == ToolVals(t)
      IN /\ Len(vals) = Len(names)
         /\ \A p \in 1..Len(vals) :
              /\ vals[p].name = names[p]
              /\ vals[p] =
                   IF \E j \in 1..Len(pvals) : pvals[j].name = names[p]
                   THEN SetField(LastNamed(pvals, names[p]), "source", "proxy")
                   ELSE SetField(LastNamed(loaded, names[p]), "source", "static")

\* a proxy entry overwrote the first of two static names, which kept its
\* place, and the proxy brought a name of its own
C2_Witness ==
  \E t \in Threads :
    /\ AiMerged(t) /\ ProxyOk(th[t].proxy_res)
    /\ Len(loaded) = 2 /\ DistinctNames(loaded)
    /\ Len(ToolVals(t)) = 3
    /\ ToolVals(t)[1].source = "proxy"
    /\ ToolVals(t)[1].name = loaded[1].name
    /\ ToolVals(t)[2].source = "static"
    /\ ToolVals(t)[3].source = "proxy"

\* the pre-filter score as the claim states it
ClaimQuickScore(d, task) ==
  LET desc == IF "description" \in DOMAIN d THEN Lower(d.description) ELSE <<>>
      toks == IF "tags" \in DOMAIN d THEN Split(Lower(Join(d.tags))) ELSE <<>>
      rank == IF "mcprank_score" \in DOMAIN d THEN d.mcprank_score ELSE 0
  IN (IF IsSubstring(Lower(task), desc) THEN 2 ELSE 0)
     + (IF \E x \in {toks[j] : j \in 1..Len(toks)} : IsSubstring(x, Lower(task))
        THEN 1 ELSE 0)
     + 2 * rank

\* C8: the candidate list in the prompt has exactly min(25, size of the
\* aggregated catalog) entries, each drawn from the aggregated catalog, in
\* descending order of the pre-filter score, no left-out entry scoring higher
\* than a chosen one; the caller's top_k plays no part.
C8_PreFilter ==
  \A t \in Threads :
    AiMerged(t) =>
      LET vals == ToolVals(t)
          cand == th[t].prompt.tools
          task == th[t].arg
      IN /\ Len(cand) = Min(25, Len(vals))
         /\ Len(cand) <= 25
         /\ \A p \in 1..Len(cand) : \E i \in 1..Len(vals) : cand[p] = vals[i]
         /\ \A p, q \in 1..Len(cand) : p # q => cand[p].name # cand[q].name
         /\ \A p, q \in 1..Len(cand) :
              p < q => ClaimQuickScore(cand[p], task) >= ClaimQuickScore(cand[q], task)
         /\ \A i \in 1..Len(vals) :
              (\A p \in 1..Len(cand) : cand[p] # vals[i]) =>
                \A p \in 1..Len(cand) :
                  ClaimQuickScore(cand[p], task) >= ClaimQuickScore(vals[i], task)

\* more than 25 aggregated entries, static and proxy, of different scores,
\* trimmed to 25 for a caller who asked for one
C8_Witness ==
  \E t \in Threads :
    /\ AiMerged(t)
    /\ Len(ToolVals(t)) > 25
    /\ Len(th[t].prompt.tools) = 25
    /\ th[t].top_k = 1
    /\ \E p \in 1..25 : th[t].prompt.tools[p].source = "static"
    /\ ClaimQuickScore(th[t].prompt.tools[1], th[t].arg)
         > ClaimQuickScore(th[t].prompt.tools[25], th[t].arg)

AiDone(t) == th[t].op = "recommend_ai" /\ th[t].pc = "done" /\ th[t].llm_res.kind # "none"

\* C6: a /recommend-ai request whose LLM call was made returns a body: after
\* HTTP 200 {task, llm_response} with the first choice's content, after a
\* non-200 {error} with the response text, and after an unreachable host
\* {error} with an error string; no exception leaves the handler.
C6_AiOutcome ==
  \A t \in Threads :
    AiDone(t) =>
      LET r == th[t].llm_res
      IN /\ r.kind = "exception" =>
              (th[t].resp.kind = "return" /\ "error" \in DOMAIN th[t].resp.body)
         /\ (r.kind = "response" /\ r.status_code # 200) =>
              th[t].resp = Returned([error |-> <<r.text>>])
         /\ (r.kind = "response" /\ r.status_code = 200 /\ r.json.ok
               /\ Len(r.json.choices) > 0) =>
              th[t].resp = Returned([task |-> th[t].arg,
                                     llm_response |-> r.json.choices[1]])

----------------------------------------------------------------------------
(* Claims about /list_tools and the shared static catalog *)

ListDone(t) == th[t].op = "list_tools" /\ th[t].pc = "done"

Contains(text, piece) == \E i \in 1..Len(text) : text[i] = piece

\* C7: /list_tools always returns a body and never raises: after HTTP 200
\* with a JSON body the parsed body itself, after a non-200 an {error} whose
\* text holds the status code and the body text, after an exception
\* (unreachable host, timeout, a 200 body that is not JSON) an {error} with
\* the exception's string.
C7_ListTools ==
  \A t \in Threads :
    ListDone(t) =>
      LET r == th[t].proxy_res
          resp == th[t].resp
      IN /\ resp.kind = "return"
         /\ (r.kind = "response" /\ r.status_code = 200 /\ r.json.ok) =>
              /\ "error" \notin DOMAIN resp.body
              /\ resp.body.type = r.json.type
              /\ resp.body.items = r.json.items
         /\ (r.kind = "response" /\ r.status_code # 200) =>
              /\ DOMAIN resp.body = {"error"}
              /\ Contains(resp.body.error, StatusText(r.status_code))
              /\ Contains(resp.body.error, r.text)
         /\ r.kind = "exception" =>
              (DOMAIN resp.body = {"error"} /\ resp.body.error = <<r.msg>>)
         /\ (r.kind = "response" /\ r.status_code = 200 /\ ~r.json.ok) =>
              (DOMAIN resp.body = {"error"} /\ resp.body.error = <<"Expecting value">>)

\* a timeout and a 200 body that is not JSON, both answered with {error}
C7_Witness ==
  \E t, u \in Threads :
    /\ ListDone(t) /\ th[t].proxy_res.kind = "exception"
    /\ th[t].resp = Returned([error |-> <<"timed out">>])
    /\ ListDone(u) /\ th[u].proxy_res.kind = "response"
    /\ th[u].proxy_res.status_code = 200 /\ ~th[u].proxy_res.json.ok
    /\ th[u].resp.kind = "return"

\* C5: the static catalog is read-only at request time: it always holds the
\* entries loaded at startup, field for field (no source field is added), so
\* the body of /recommend does not depend on the requests served before.
C5_StaticReadOnly ==
  /\ ranked_mcps = loaded
  /\ \A t \in Threads :
       RecDone(t) =>
         Recs(t) = BodyRead(loaded, RecommendBody(loaded, th[t].arg, th[t].top_k)).recommendations

\* d without its source field
SansSource(d) == [f \in (DOMAIN d) \ {"source"} |-> d[f]]

\* d carries nothing the proxy supplied: it is the loaded descriptor o, but
\* for a source field that says "static"
ProxyFree(d, o) ==
  /\ SansSource(d) = SansSource(o)
  /\ "source" \in DOMAIN d => (d.source = "static" \/ d = o)

\* C10: under every interleaving of requests no static descriptor carries
\* source="proxy" or a field value from the proxy, also when the proxy
\* returns a static name; /recommend returns no proxy descriptor and is never
\* at an outbound call.
C10_Isolation ==
  /\ Len(ranked_mcps) = Len(loaded)
  /\ \A i \in 1..Len(loaded) : ProxyFree(ranked_mcps[i], loaded[i])
  /\ \A t \in Threads :
       /\ th[t].op = "recommend" =>
            /\ \A p \in 1..Len(Recs(t)) :
                 \E i \in 1..Len(loaded) : ProxyFree(Recs(t)[p], loaded[i])
            /\ th[t].resp.kind = "return" =>
                 \A p \in 1..Len(th[t].resp.body.recommendations) :
                   th[t].resp.body.recommendations[p].heap = "static"
            /\ th[t].pc \in {"serialise", "walk", "done"}

\* one thread has merged a proxy entry under a static name while another
\* has answered /recommend from the tagged static catalog
C10_Witness ==
  \E t, u \in Threads :
    /\ AiMerged(t)
    /\ \E p \in 1..Len(th[t].all_tools) :
         /\ th[t].all_tools[p].ref.heap = "proxy"
         /\ \E i \in 1..Len(loaded) : loaded[i].name = th[t].all_tools[p].name
    /\ RecDone(u) /\ Len(Recs(u)) = 2
    /\ \A p \in 1..2 : "source" \in DOMAIN Recs(u)[p]

=============================================================================
